---- MODULE Spec2Model ----
(***************************************************************************)
(* The prefer-object-spread rule of tslint (src/rules/preferObjectSpread-  *)
(* Rule.ts): the walker that finds Object.assign calls, the usage          *)
(* classifier, and the fix generator that rewrites a call into an object   *)
(* literal with spreads.                                                   *)
(*                                                                         *)
(* A source file is a text (a sequence of one-character strings, offsets   *)
(* counted from 0 as in TypeScript) together with its syntax tree, kept as *)
(* a sequence of nodes in document (pre-) order; a node refers to its      *)
(* parent and children by index.                                           *)
(***************************************************************************)
EXTENDS Integers, Sequences, FiniteSets, TLC

VARIABLES sourceFile, stack, visited, failures, fixed

vars == <<sourceFile, stack, visited, failures, fixed>>

\* Bounds of the model: the longest argument list of the generated calls.
MaxWalkArgs == 2
MaxFixArgs == 3

----------------------------------------------------------------------------
(* Source texts *)

sObject == <<"O","b","j","e","c","t">>
sAssign == <<"a","s","s","i","g","n">>
sKeys == <<"k","e","y","s">>
sObj == <<"o","b","j">>
sCond == <<"c","o","n","d">>
sConst == <<"c","o","n","s","t"," ">>
sReturn == <<"r","e","t","u","r","n"," ">>
sNew == <<"n","e","w"," ">>
sClass == <<"c","l","a","s","s"," ">>
sEq == <<" ","="," ">>

----------------------------------------------------------------------------
(* Syntax: what the parser hands the rule.  A shape is a node kind, its    *)
(* children and the lexemes around them: lex[1] kids[1] lex[2] ... kids[n] *)
(* lex[n+1].  White space at the end of a lexeme is the leading trivia of  *)
(* the child that follows it.                                              *)

Sh(kind, kids, lex) ==
    [kind |-> kind, kids |-> kids, lex |-> lex,
     hasTrailingComma |-> FALSE, sideEffects |-> FALSE]

Leaf(kind, txt) == Sh(kind, <<>>, <<txt>>)

Ident(txt) == Leaf("Identifier", txt)

NumLit(txt) == Leaf("NumericLiteral", txt)

PropertyAccess(obj, name) ==
    Sh("PropertyAccessExpression", <<obj, Ident(name)>>, <<<<>>, <<".">>, <<>>>>)

\* lexemes of a comma separated list of n elements between open and close
ListLex(open, n, close, comma) ==
    IF n = 0 THEN <<open \o close>>
    ELSE <<open>> \o [i \in 1..(n - 1) |-> <<",", " ">>]
                  \o <<(IF comma THEN <<",">> ELSE <<>>) \o close>>

CallLike(kind, pre, callee, args, comma) ==
    [Sh(kind, <<callee>> \o args,
        <<pre>> \o ListLex(<<"(">>, Len(args), <<")">>, comma))
     EXCEPT !.hasTrailingComma = comma]

Call(callee, args, comma) == CallLike("CallExpression", <<>>, callee, args, comma)

New(callee, args) == CallLike("NewExpression", sNew, callee, args, FALSE)

PropertyAssignment(name, value) ==
    Sh("PropertyAssignment", <<Ident(name), value>>, <<<<>>, <<":", " ">>, <<>>>>)

ObjectLiteral(props, comma) ==
    Sh("ObjectLiteralExpression", props, ListLex(<<"{">>, Len(props), <<"}">>, comma))

Binary(left, opKind, opText, right) ==
    Sh("BinaryExpression", <<left, Leaf(opKind, opText), right>>,
       <<<<>>, <<" ">>, <<" ">>, <<>>>>)

Conditional(c, a, b) ==
    Sh("ConditionalExpression",
       <<c, Leaf("QuestionToken", <<"?">>), a, Leaf("ColonToken", <<":">>), b>>,
       <<<<>>, <<" ">>, <<" ">>, <<" ">>, <<" ">>, <<>>>>)

Paren(e) == Sh("ParenthesizedExpression", <<e>>, <<<<"(">>, <<")">>>>)

Spread(e) == Sh("SpreadElement", <<e>>, <<<<".", ".", ".">>, <<>>>>)

ArrayLiteral(elems) ==
    Sh("ArrayLiteralExpression", elems, ListLex(<<"[">>, Len(elems), <<"]">>, FALSE))

ObjectAssign == PropertyAccess(Ident(sObject), sAssign)

\* The oracle's answer for an expression is part of the input.
WithSideEffects(e, se) == [e EXCEPT !.sideEffects = se]

----------------------------------------------------------------------------
(* The parser's positions: every node gets getStart() and end.             *)

RECURSIVE Emit(_, _, _), EmitKids(_, _, _, _)

EmitKids(sh, me, i, st) ==
    IF i > Len(sh.kids) THEN st
    ELSE LET s1 == Emit(sh.kids[i], me, st)
         IN  EmitKids(sh, me, i + 1, [s1 EXCEPT !.text = @ \o sh.lex[i + 1]])

Emit(sh, parent, st) ==
    LET me == Len(st.nodes) + 1
        at == Len(st.text)
        node == [kind |-> sh.kind, parent |-> parent, start |-> at, end |-> at,
                 text |-> IF Len(sh.kids) = 0 THEN sh.lex[1] ELSE <<>>,
                 hasTrailingComma |-> sh.hasTrailingComma,
                 sideEffects |-> sh.sideEffects,
                 children |-> <<>>]
        st0 == [nodes |-> Append(st.nodes, node), text |-> st.text \o sh.lex[1]]
        st1 == EmitKids(sh, me, 1, st0)
        start == IF sh.lex[1] # <<>> \/ Len(sh.kids) = 0
                 THEN at ELSE st1.nodes[me + 1].start
    IN  [st1 EXCEPT !.nodes[me].start = start, !.nodes[me].end = Len(st1.text)]

RECURSIVE Ascending(_, _, _)
\* the members of S in 1..n, in increasing order
Ascending(S, i, n) ==
    IF i > n THEN <<>>
    ELSE (IF i \in S THEN <<i>> ELSE <<>>) \o Ascending(S, i + 1, n)

Parse(sh) ==
    LET st == Emit(sh, 0, [nodes |-> <<>>, text |-> <<>>])
        N == Len(st.nodes)
    IN  [text |-> st.text,
         nodes |-> [i \in 1..N |->
                      [st.nodes[i] EXCEPT !.children =
                          Ascending({j \in 1..N : st.nodes[j].parent = i}, 1, N)]]]

----------------------------------------------------------------------------
(* Node queries of the syntax tree *)

isCallExpression(sf, n) == sf.nodes[n].kind = "CallExpression"

isIdentifier(sf, n) == sf.nodes[n].kind = "Identifier"

isPropertyAccessExpression(sf, n) == sf.nodes[n].kind = "PropertyAccessExpression"

isObjectLiteralExpression(sf, n) == sf.nodes[n].kind = "ObjectLiteralExpression"

isSpreadElement(sf, n) == sf.nodes[n].kind = "SpreadElement"

getStart(sf, n) == sf.nodes[n].start

\* node.expression of a call, a new or a property access expression
expression(sf, n) == sf.nodes[n].children[1]

\* node.name of a property access expression
name(sf, n) == sf.nodes[n].children[2]

\* node.arguments of a call or new expression
arguments(sf, n) == Tail(sf.nodes[n].children)

\* arg.properties of an object literal
properties(sf, n) == sf.nodes[n].children

\* parent.operatorToken of a binary expression
operatorToken(sf, n) == sf.nodes[n].children[2]

\* args.end: the end of the last token of the argument list
argumentsEnd(sf, n) ==
    LET args == arguments(sf, n)
    IN  sf.nodes[args[Len(args)]].end + (IF sf.nodes[n].hasTrailingComma THEN 1 ELSE 0)

\* tsutils' hasSideEffects(node, SideEffectOptions.Constructor): an oracle
hasSideEffects(sf, n) == sf.nodes[n].sideEffects

\* the source text of a node, from getStart() to end
SourceOf(sf, n) == SubSeq(sf.text, sf.nodes[n].start + 1, sf.nodes[n].end)

----------------------------------------------------------------------------
(* The rule *)

FAILURE_STRING == "Use the object spread operator instead."

ASSIGNMENT_FAILURE_STRING ==
    "'Object.assign' returns the first argument. Prefer object spread if you want a new object."

\* Lint.Replacement and its factories
Replacement(start, length, text) == [start |-> start, length |-> length, text |-> text]

replaceFromTo(start, end, text) == Replacement(start, end - start, text)

deleteFromTo(start, end) == Replacement(start, end - start, <<>>)

deleteText(start, length) == Replacement(start, length, <<>>)

appendText(start, text) == Replacement(start, 0, text)

\* a variant that forgets the binary expressions
needsParensConditionalOnly(sf, n) ==
    CASE sf.nodes[n].kind = "ConditionalExpression" -> TRUE
      [] OTHER -> FALSE

needsParens(sf, n) ==
    CASE sf.nodes[n].kind = "ConditionalExpression" -> TRUE
      [] sf.nodes[n].kind = "BinaryExpression" -> TRUE
      [] OTHER -> FALSE

\* a variant that takes the end of the call for the end of its argument list
emptyLiteralEndOfCall(sf, node, i) ==
    LET args == arguments(sf, node)
    IN  IF i # Len(args) THEN getStart(sf, args[i + 1])
        ELSE IF sf.nodes[node].hasTrailingComma = TRUE THEN sf.nodes[node].end
        ELSE sf.nodes[args[i]].end

\* a variant that deletes the literal and never the separator after it
emptyLiteralEndOfLiteral(sf, node, i) == sf.nodes[arguments(sf, node)[i]].end

\* the end of the deletion of the empty object literal args[i]
emptyLiteralEnd(sf, node, i) ==
    LET args == arguments(sf, node)
    IN  IF i # Len(args) THEN getStart(sf, args[i + 1])
        ELSE IF sf.nodes[node].hasTrailingComma = TRUE THEN argumentsEnd(sf, node)
        ELSE sf.nodes[args[i]].end

\* a variant that removes the braces and keeps a comma before the closing one
literalEditsBracesOnly(sf, arg) ==
    <<deleteText(getStart(sf, arg), 1),
      deleteFromTo(sf.nodes[arg].end - 1, sf.nodes[arg].end)>>

\* the replacements of a non-empty object literal argument
literalEdits(sf, arg) ==
    LET props == properties(sf, arg)
    IN  <<deleteText(getStart(sf, arg), 1),
          deleteFromTo(sf.nodes[props[Len(props)]].end, sf.nodes[arg].end)>>

\* the replacements of an argument that is no object literal
spreadEdits(sf, arg) ==
    LET parens == needsParens(sf, arg)
    IN  <<appendText(getStart(sf, arg),
                     IF parens THEN <<".", ".", ".", "(">> ELSE <<".", ".", ".">>)>>
        \o (IF parens THEN <<appendText(sf.nodes[arg].end, <<")">>)>> ELSE <<>>)

\* a variant that removes a trailing empty literal with the separator before it
argumentEditsElidingBefore(sf, node, i) ==
    LET args == arguments(sf, node)
        arg == args[i]
    IN  IF isObjectLiteralExpression(sf, arg)
        THEN IF Len(properties(sf, arg)) = 0
             THEN IF i = Len(args) /\ i > 1 /\ ~ sf.nodes[node].hasTrailingComma
                     /\ ~ (isObjectLiteralExpression(sf, args[i - 1])
                           /\ Len(properties(sf, args[i - 1])) = 0)
                  THEN <<deleteFromTo(sf.nodes[args[i - 1]].end, sf.nodes[arg].end)>>
                  ELSE <<deleteFromTo(getStart(sf, arg), emptyLiteralEnd(sf, node, i))>>
             ELSE literalEdits(sf, arg)
        ELSE spreadEdits(sf, arg)

\* one pass of the loop of createFix
argumentEdits(sf, node, i) ==
    LET arg == arguments(sf, node)[i]
    IN  IF isObjectLiteralExpression(sf, arg)
        THEN IF Len(properties(sf, arg)) = 0
             THEN <<deleteFromTo(getStart(sf, arg), emptyLiteralEnd(sf, node, i))>>
             ELSE literalEdits(sf, arg)
        ELSE spreadEdits(sf, arg)

RECURSIVE fixArguments(_, _, _)
fixArguments(sf, node, i) ==
    IF i > Len(arguments(sf, node)) THEN <<>>
    ELSE argumentEdits(sf, node, i) \o fixArguments(sf, node, i + 1)

callEdits(sf, node) ==
    <<replaceFromTo(getStart(sf, node), getStart(sf, arguments(sf, node)[1]), <<"{">>),
      Replacement(sf.nodes[node].end - 1, 1, <<"}">>)>>

createFix(sf, node) == callEdits(sf, node) \o fixArguments(sf, node, 1)

\* The parser gives every call or new expression that has a call among its
\* children an argument list, so `arguments !== undefined` holds there and
\* indexOf(node) !== -1 is membership of the node in that list.
isReturnValueUsed(sf, node) ==
    LET parent == sf.nodes[node].parent
        kind == sf.nodes[parent].kind
    IN  CASE kind \in {"VariableDeclaration", "PropertyAssignment", "PropertyDeclaration",
                       "ReturnStatement", "BindingElement", "ArrayLiteralExpression"} -> TRUE
          [] kind = "BinaryExpression" ->
                sf.nodes[operatorToken(sf, parent)].kind = "EqualsToken"
          [] kind \in {"NewExpression", "CallExpression"} ->
                \E k \in 1..Len(arguments(sf, parent)) : arguments(sf, parent)[k] = node
          [] OTHER -> FALSE

\* a variant that forgets to exclude spread arguments
isObjectAssignAllowingSpread(sf, node) ==
    /\ isCallExpression(sf, node)
    /\ Len(arguments(sf, node)) # 0
    /\ isPropertyAccessExpression(sf, expression(sf, node))
    /\ sf.nodes[name(sf, expression(sf, node))].text = sAssign
    /\ isIdentifier(sf, expression(sf, expression(sf, node)))
    /\ sf.nodes[expression(sf, expression(sf, node))].text = sObject

\* the test of walk's callback: an Object.assign call without spread arguments
isObjectAssign(sf, node) ==
    /\ isCallExpression(sf, node)
    /\ Len(arguments(sf, node)) # 0
    /\ isPropertyAccessExpression(sf, expression(sf, node))
    /\ sf.nodes[name(sf, expression(sf, node))].text = sAssign
    /\ isIdentifier(sf, expression(sf, expression(sf, node)))
    /\ sf.nodes[expression(sf, expression(sf, node))].text = sObject
    /\ ~ \E k \in 1..Len(arguments(sf, node)) : isSpreadElement(sf, arguments(sf, node)[k])

Failure(node, message, fix) == [node |-> node, message |-> message, fix |-> fix]

\* a variant that asks for a used result and a pure first argument in both branches
reportUsedOnly(sf, node) ==
    IF isObjectAssign(sf, node)
       /\ isReturnValueUsed(sf, node) /\ ~ hasSideEffects(sf, arguments(sf, node)[1])
    THEN IF sf.nodes[arguments(sf, node)[1]].kind = "ObjectLiteralExpression"
         THEN <<Failure(node, FAILURE_STRING, createFix(sf, node))>>
         ELSE <<Failure(node, ASSIGNMENT_FAILURE_STRING, createFix(sf, node))>>
    ELSE <<>>

\* a variant that never asks the side-effect oracle
reportIgnoringOracle(sf, node) ==
    IF isObjectAssign(sf, node)
    THEN IF sf.nodes[arguments(sf, node)[1]].kind = "ObjectLiteralExpression"
         THEN <<Failure(node, FAILURE_STRING, createFix(sf, node))>>
         ELSE IF isReturnValueUsed(sf, node)
              THEN <<Failure(node, ASSIGNMENT_FAILURE_STRING, createFix(sf, node))>>
              ELSE <<>>
    ELSE <<>>

\* the failures the callback adds for a node
report(sf, node) ==
    IF isObjectAssign(sf, node)
    THEN IF sf.nodes[arguments(sf, node)[1]].kind = "ObjectLiteralExpression"
         THEN <<Failure(node, FAILURE_STRING, createFix(sf, node))>>
         ELSE IF isReturnValueUsed(sf, node) /\ ~ hasSideEffects(sf, arguments(sf, node)[1])
              THEN <<Failure(node, ASSIGNMENT_FAILURE_STRING, createFix(sf, node))>>
              ELSE <<>>
    ELSE <<>>

\* a variant that does not descend below a matching call
forEachChildSkippingMatches(sf, node) ==
    IF isObjectAssign(sf, node) THEN <<>> ELSE sf.nodes[node].children

\* ts.forEachChild(node, cb): the children, in order, are visited next
forEachChild(sf, node) == sf.nodes[node].children

----------------------------------------------------------------------------
(* Applying a fix: all replacements at once, by offset in the original text *)

covered(fix, p) ==
    \E k \in 1..Len(fix) : fix[k].start <= p /\ p < fix[k].start + fix[k].length

RECURSIVE textsAt(_, _, _, _)
\* the texts of the replacements that start at p, insertions (zero = TRUE) or not
textsAt(fix, p, zero, k) ==
    IF k > Len(fix) THEN <<>>
    ELSE (IF fix[k].start = p /\ (fix[k].length = 0) = zero THEN fix[k].text ELSE <<>>)
         \o textsAt(fix, p, zero, k + 1)

RECURSIVE applyFrom(_, _, _)
applyFrom(text, fix, p) ==
    IF p > Len(text) THEN <<>>
    ELSE textsAt(fix, p, TRUE, 1) \o textsAt(fix, p, FALSE, 1)
         \o (IF p < Len(text) /\ ~ covered(fix, p) THEN <<text[p + 1]>> ELSE <<>>)
         \o applyFrom(text, fix, p + 1)

applyAll(text, fix) == applyFrom(text, fix, 0)

----------------------------------------------------------------------------
(* The source files the rule is run on *)

ExpressionStatement(e) == Sh("ExpressionStatement", <<e>>, <<<<>>, <<";">>>>)

VariableStatement(target, e) ==
    Sh("VariableStatement",
       <<Sh("VariableDeclarationList",
            <<Sh("VariableDeclaration", <<target, e>>, <<<<>>, sEq, <<>>>>)>>,
            <<sConst, <<>>>>)>>,
       <<<<>>, <<>>>>)

ContextKinds ==
    {"ExpressionStatement", "VariableDeclaration", "PropertyAssignment",
     "PropertyDeclaration", "ReturnStatement", "BindingElement",
     "ArrayLiteralExpression", "AssignmentRight", "AssignmentLeft",
     "CompoundAssignmentRight", "PlusRight", "CallArgument", "CallCallee",
     "NewArgument", "ParenthesizedExpression", "PropertyAccessExpression"}

\* the statement that holds the expression e at the place named by c
Context(c, e) ==
    CASE c = "ExpressionStatement" -> ExpressionStatement(e)
      [] c = "VariableDeclaration" -> VariableStatement(Ident(<<"x">>), e)
      [] c = "PropertyAssignment" ->
            ExpressionStatement(Paren(ObjectLiteral(<<PropertyAssignment(<<"p">>, e)>>, FALSE)))
      [] c = "PropertyDeclaration" ->
            Sh("ClassDeclaration",
               <<Ident(<<"C">>),
                 Sh("PropertyDeclaration", <<Ident(<<"p">>), e>>, <<<<>>, sEq, <<";">>>>)>>,
               <<sClass, <<" ", "{", " ">>, <<" ", "}">>>>)
      [] c = "ReturnStatement" -> Sh("ReturnStatement", <<e>>, <<sReturn, <<";">>>>)
      [] c = "BindingElement" ->
            VariableStatement(
               Sh("ObjectBindingPattern",
                  <<Sh("BindingElement", <<Ident(<<"p">>), e>>, <<<<>>, sEq, <<>>>>)>>,
                  <<<<"{">>, <<"}">>>>),
               Ident(<<"o">>))
      [] c = "ArrayLiteralExpression" -> ExpressionStatement(ArrayLiteral(<<e>>))
      [] c = "AssignmentRight" ->
            ExpressionStatement(Binary(Ident(<<"x">>), "EqualsToken", <<"=">>, e))
      [] c = "AssignmentLeft" ->
            ExpressionStatement(Binary(e, "EqualsToken", <<"=">>, Ident(<<"x">>)))
      [] c = "CompoundAssignmentRight" ->
            ExpressionStatement(Binary(Ident(<<"x">>), "PlusEqualsToken", <<"+", "=">>, e))
      [] c = "PlusRight" ->
            ExpressionStatement(Binary(Ident(<<"x">>), "PlusToken", <<"+">>, e))
      [] c = "CallArgument" -> ExpressionStatement(Call(Ident(<<"f">>), <<e>>, FALSE))
      [] c = "CallCallee" -> ExpressionStatement(Call(e, <<Ident(<<"x">>)>>, FALSE))
      [] c = "NewArgument" -> ExpressionStatement(New(Ident(<<"F">>), <<e>>))
      [] c = "ParenthesizedExpression" -> ExpressionStatement(Paren(e))
      [] c = "PropertyAccessExpression" -> ExpressionStatement(PropertyAccess(e, <<"p">>))

SourceFileOf(statement) ==
    Sh("SourceFile", <<statement, Leaf("EndOfFileToken", <<>>)>>, <<<<>>, <<>>, <<>>>>)

CalleeKinds == {"Object.assign", "Object.keys", "obj.assign", "assign", "a.Object.assign"}

Callee(k) ==
    CASE k = "Object.assign" -> ObjectAssign
      [] k = "Object.keys" -> PropertyAccess(Ident(sObject), sKeys)
      [] k = "obj.assign" -> PropertyAccess(Ident(sObj), sAssign)
      [] k = "assign" -> Ident(sAssign)
      [] k = "a.Object.assign" -> PropertyAccess(PropertyAccess(Ident(<<"a">>), sObject), sAssign)

ObjA1 == ObjectLiteral(<<PropertyAssignment(<<"a">>, NumLit(<<"1">>))>>, FALSE)

Argument(tag) ==
    CASE tag = "Empty" -> ObjectLiteral(<<>>, FALSE)
      [] tag = "Literal" -> ObjA1
      [] tag = "LiteralComma" ->
            ObjectLiteral(<<PropertyAssignment(<<"a">>, NumLit(<<"1">>))>>, TRUE)
      [] tag = "Identifier" -> Ident(<<"b">>)
      [] tag = "Conditional" -> Conditional(Ident(sCond), Ident(<<"a">>), Ident(<<"b">>))
      [] tag = "Binary" -> Binary(Ident(<<"a">>), "BarBarToken", <<"|", "|">>, Ident(<<"b">>))
      [] tag = "Parenthesized" -> Paren(Ident(<<"b">>))
      [] tag = "Spread" -> Spread(Ident(<<"r">>))
      [] tag = "Nested" -> Call(ObjectAssign, <<ObjectLiteral(<<>>, FALSE), Ident(<<"a">>)>>, FALSE)

SeqsUpTo(S, lo, hi) == UNION {[1..k -> S] : k \in lo..hi}

\* the call with the oracle's answer for its first argument
AssignCall(callee, args, comma, se) ==
    Call(callee,
         IF Len(args) = 0 THEN args
         ELSE [args EXCEPT ![1] = WithSideEffects(@, se)],
         comma)

WalkTags == {"Literal", "Identifier", "Spread", "Nested"}

FixTags == {"Empty", "Literal", "LiteralComma", "Identifier", "Conditional",
            "Binary", "Parenthesized"}

\* the examples of the documentation
Examples ==
    LET id(c) == Ident(<<c>>)
        empty == ObjectLiteral(<<>>, FALSE)
        stmt(args) == ExpressionStatement(AssignCall(ObjectAssign, args, FALSE, FALSE))
    IN  { stmt(<<empty, ObjA1, id("b")>>),
          stmt(<<ObjA1, id("b"), empty>>),
          stmt(<<id("y"), id("z")>>),
          stmt(<<Conditional(Ident(sCond), id("a"), id("b")), id("c")>>),
          stmt(<<Argument("Nested"), id("b")>>),
          VariableStatement(id("x"), AssignCall(ObjectAssign, <<id("y"), id("z")>>, FALSE, FALSE)),
          VariableStatement(id("x"),
             AssignCall(ObjectAssign,
                        <<Conditional(Ident(sCond), id("a"), id("b")), id("c")>>, FALSE, FALSE)) }

WalkInputs ==
    { Parse(SourceFileOf(Context(c, AssignCall(Callee(k), [i \in DOMAIN tags |-> Argument(tags[i])],
                                               FALSE, se)))) :
        c \in ContextKinds, k \in CalleeKinds,
        tags \in SeqsUpTo(WalkTags, 0, MaxWalkArgs), se \in BOOLEAN }
    \cup { Parse(SourceFileOf(s)) : s \in Examples }

FixInputs ==
    { Parse(SourceFileOf(Context(c, AssignCall(ObjectAssign, [i \in DOMAIN tags |-> Argument(tags[i])],
                                               comma, FALSE)))) :
        c \in {"VariableDeclaration"},
        tags \in SeqsUpTo(FixTags, 1, MaxFixArgs), comma \in BOOLEAN }
    \cup { Parse(SourceFileOf(s)) : s \in Examples }

----------------------------------------------------------------------------
(* The walk, one callback at a time, and the application of the fixes *)

Start(inputs) ==
    /\ sourceFile \in inputs
    /\ stack = forEachChild(sourceFile, 1)
    /\ visited = <<>>
    /\ failures = <<>>
    /\ fixed = <<>>

Init == Start(WalkInputs)

InitFix == Start(FixInputs)

\* function cb(node): test the node, then descend into its children.  cb
\* returns what ts.forEachChild returns, which is undefined as no callback
\* returns a value, so no traversal is cut short.
cb ==
    /\ stack # <<>>
    /\ LET node == Head(stack)
       IN  /\ failures' = failures \o report(sourceFile, node)
           /\ visited' = Append(visited, node)
           /\ stack' = forEachChild(sourceFile, node) \o Tail(stack)
    /\ UNCHANGED <<sourceFile, fixed>>

\* the consumer applies the fix of the next failure to the original text
ApplyFix ==
    /\ stack = <<>>
    /\ Len(fixed) < Len(failures)
    /\ fixed' = Append(fixed, applyAll(sourceFile.text, failures[Len(fixed) + 1].fix))
    /\ UNCHANGED <<sourceFile, stack, visited, failures>>

Next == cb \/ ApplyFix

Spec == Init /\ [][Next]_vars

SpecFix == InitFix /\ [][Next]_vars

----------------------------------------------------------------------------
(* Vocabulary of the properties *)

Done == stack = <<>>

Nodes == DOMAIN sourceFile.nodes

kindOf(n) == sourceFile.nodes[n].kind

parentOf(n) == sourceFile.nodes[n].parent

argsOf(n) == arguments(sourceFile, n)

sObjectAssign == sObject \o <<".">> \o sAssign

\* a call whose callee reads exactly Object.assign
AssignCallNode(n) ==
    /\ kindOf(n) = "CallExpression"
    /\ SourceOf(sourceFile, expression(sourceFile, n)) = sObjectAssign

HasSpreadArgument(n) == \E k \in DOMAIN argsOf(n) : kindOf(argsOf(n)[k]) = "SpreadElement"

\* Object.assign(first, rest...) with no spread argument
Candidate(n) == AssignCallNode(n) /\ Len(argsOf(n)) >= 1 /\ ~ HasSpreadArgument(n)

LiteralFirst(n) == kindOf(argsOf(n)[1]) = "ObjectLiteralExpression"

FailuresAt(n) == {i \in DOMAIN failures : failures[i].node = n}

ReportedOnceWith(n, message) ==
    /\ Cardinality(FailuresAt(n)) = 1
    /\ \A i \in FailuresAt(n) : failures[i].message = message

\* the positions in which the documentation calls a result used
UsedPosition(n) ==
    LET p == parentOf(n)
    IN  \/ kindOf(p) \in {"VariableDeclaration", "PropertyAssignment", "PropertyDeclaration",
                          "ReturnStatement", "BindingElement", "ArrayLiteralExpression"}
        \/ /\ kindOf(p) = "BinaryExpression"
           /\ SourceOf(sourceFile, sourceFile.nodes[p].children[2]) = <<"=">>
           /\ sourceFile.nodes[p].children[3] = n
        \/ /\ kindOf(p) \in {"CallExpression", "NewExpression"}
           /\ sourceFile.nodes[p].children[1] # n

----------------------------------------------------------------------------
(* C1: when the walk is over, every Object.assign call with at least one   *)
(* argument, no spread argument and an object literal as first argument    *)
(* has exactly one failure, with FAILURE_STRING, whatever its parent node  *)
(* and whatever the side-effect oracle answers.                            *)
C1_LiteralFirstReportedOnce ==
    Done => \A n \in Nodes :
        (Candidate(n) /\ LiteralFirst(n)) => ReportedOnceWith(n, FAILURE_STRING)

\* a bare statement whose literal first argument the oracle calls effectful
C1_Witness ==
    /\ Done
    /\ \E n \in Nodes :
          /\ Candidate(n) /\ LiteralFirst(n)
          /\ kindOf(parentOf(n)) = "ExpressionStatement"
          /\ hasSideEffects(sourceFile, argsOf(n)[1])
          /\ ReportedOnceWith(n, FAILURE_STRING)

(* C2: when the walk is over, an Object.assign call with at least one      *)
(* argument, no spread argument and a first argument that is no object     *)
(* literal has exactly one failure, with ASSIGNMENT_FAILURE_STRING, if     *)
(* isReturnValueUsed answers yes and the oracle reports no side effects,   *)
(* and no failure otherwise; a result in an assignment, return, argument   *)
(* or binding position counts as used, a bare statement does not.          *)
C2_NonLiteralFirst ==
    Done => \A n \in Nodes :
        (Candidate(n) /\ ~ LiteralFirst(n)) =>
            /\ IF isReturnValueUsed(sourceFile, n) /\ ~ hasSideEffects(sourceFile, argsOf(n)[1])
               THEN ReportedOnceWith(n, ASSIGNMENT_FAILURE_STRING)
               ELSE FailuresAt(n) = {}
            /\ (UsedPosition(n) /\ ~ hasSideEffects(sourceFile, argsOf(n)[1]))
                  => ReportedOnceWith(n, ASSIGNMENT_FAILURE_STRING)
            /\ kindOf(parentOf(n)) = "ExpressionStatement" => FailuresAt(n) = {}

\* Object.assign(y, z); has been walked and nothing was reported
C2_Witness ==
    /\ Done
    /\ sourceFile.text = sObjectAssign \o <<"(", "y", ",", " ", "z", ")", ";">>
    /\ failures = <<>>

(* C3: an Object.assign call with a spread element among its arguments     *)
(* never has a failure, whatever its first argument, its other arguments   *)
(* and the use of its result.                                              *)
C3_SpreadNeverReported ==
    \A n \in Nodes : (AssignCallNode(n) /\ HasSpreadArgument(n)) => FailuresAt(n) = {}

\* a used call with a literal first argument and a spread after it, walked
C3_Witness ==
    /\ Done
    /\ \E n \in Nodes :
          /\ AssignCallNode(n) /\ Len(argsOf(n)) = 2
          /\ LiteralFirst(n) /\ kindOf(argsOf(n)[2]) = "SpreadElement"
          /\ kindOf(parentOf(n)) = "VariableDeclaration"
          /\ \E k \in DOMAIN visited : visited[k] = n

(* C9, as claimed: for an Object.assign call whose parent is a binary      *)
(* expression isReturnValueUsed answers yes only if the call is the right  *)
(* operand of a plain =, and for a parent call or new expression only if   *)
(* the call is one of the arguments.                                       *)
C9_UsedOnlyAsRightOperand ==
    \A k \in DOMAIN visited :
        LET n == visited[k]
            p == parentOf(n)
        IN  (Candidate(n) /\ ~ LiteralFirst(n)) =>
               /\ kindOf(p) = "BinaryExpression" =>
                     (isReturnValueUsed(sourceFile, n) <=>
                         /\ SourceOf(sourceFile, sourceFile.nodes[p].children[2]) = <<"=">>
                         /\ sourceFile.nodes[p].children[3] = n)
               /\ kindOf(p) \in {"CallExpression", "NewExpression"} =>
                     (isReturnValueUsed(sourceFile, n) <=> sourceFile.nodes[p].children[1] # n)

(* C10, as amended: the callback is run on every node below the source     *)
(* file, in document order and once each, so every call is tested, also    *)
(* below reported and below unreported calls, and a call has one failure   *)
(* if it qualifies and none otherwise; for the statement                   *)
(* Object.assign(Object.assign({}, a), b); there is one finding, that of   *)
(* the inner call.                                                         *)
sNestedExample ==
    sObjectAssign \o <<"(">> \o sObjectAssign
        \o <<"(", "{", "}", ",", " ", "a", ")", ",", " ", "b", ")", ";">>

C10_EveryCallTestedOnce ==
    Done =>
        /\ visited = [k \in 1..(Len(sourceFile.nodes) - 1) |-> k + 1]
        /\ \A n \in Nodes : Cardinality(FailuresAt(n)) = Len(report(sourceFile, n))
        /\ \A n \in Nodes :
              (Candidate(n) /\ LiteralFirst(n) /\ Candidate(parentOf(n)))
                  => Cardinality(FailuresAt(n)) = 1
        /\ sourceFile.text = sNestedExample =>
              /\ Len(failures) = 1
              /\ Candidate(failures[1].node) /\ LiteralFirst(failures[1].node)
              /\ Candidate(parentOf(failures[1].node))
              /\ FailuresAt(parentOf(failures[1].node)) = {}

\* the nested example walked to its end
C10_Witness == Done /\ sourceFile.text = sNestedExample /\ Len(failures) = 1

\* C10, as claimed: the nested example yields two findings
C10_TwoFindings == (Done /\ sourceFile.text = sNestedExample) => Len(failures) = 2

----------------------------------------------------------------------------
(* Vocabulary of the properties of the fix *)

startOf(n) == sourceFile.nodes[n].start

endOf(n) == sourceFile.nodes[n].end

rangeEnd(r) == r.start + r.length

InFix(fix, r) == \E k \in DOMAIN fix : fix[k] = r

\* the replacements of fix that fall on the span [from, to] of the text
EditsWithin(fix, from, to) ==
    {k \in DOMAIN fix : from <= fix[k].start /\ rangeEnd(fix[k]) <= to
                        /\ ~ (fix[k].length > 0 /\ rangeEnd(fix[k]) = from)
                        /\ ~ (fix[k].length > 0 /\ fix[k].start = to)}

\* what the fix of failure i has put in the place of the call
Result(i) ==
    LET n == failures[i].node
    IN  SubSeq(fixed[i], startOf(n) + 1, Len(fixed[i]) - (Len(sourceFile.text) - endOf(n)))

\* the text around the call is as it was
AroundKept(i) ==
    LET n == failures[i].node
        tail == Len(sourceFile.text) - endOf(n)
    IN  /\ Len(fixed[i]) >= startOf(n) + tail
        /\ SubSeq(fixed[i], 1, startOf(n)) = SubSeq(sourceFile.text, 1, startOf(n))
        /\ SubSeq(fixed[i], Len(fixed[i]) - tail + 1, Len(fixed[i]))
              = SubSeq(sourceFile.text, endOf(n) + 1, Len(sourceFile.text))

IsEmptyLiteral(a) == kindOf(a) = "ObjectLiteralExpression" /\ sourceFile.nodes[a].children = <<>>

IsFilledLiteral(a) == kindOf(a) = "ObjectLiteralExpression" /\ sourceFile.nodes[a].children # <<>>

\* A scan of the members between the braces of an object literal: members
\* are separated by commas outside parentheses; a member is a spread or a
\* property; no brace and no unmatched parenthesis stands outside of them.
ScanStart == [depth |-> 0, size |-> 0, first |-> <<>>, colon |-> FALSE,
              question |-> FALSE, ok |-> TRUE]

MemberOk(s) ==
    /\ s.size > 0
    /\ IF s.first = <<".", ".", ".">> THEN s.size > 3 ELSE s.colon /\ ~ s.question

ScanStep(s, ch) ==
    IF ch = " " THEN s
    ELSE IF ch = "," /\ s.depth = 0
    THEN [ScanStart EXCEPT !.ok = s.ok /\ MemberOk(s)]
    ELSE LET t == [s EXCEPT !.size = @ + 1,
                            !.first = IF Len(@) < 3 THEN Append(@, ch) ELSE @]
         IN  CASE ch = "(" -> [t EXCEPT !.depth = @ + 1]
               [] ch = ")" -> IF t.depth = 0 THEN [t EXCEPT !.ok = FALSE]
                              ELSE [t EXCEPT !.depth = @ - 1]
               [] ch \in {"{", "}"} /\ t.depth = 0 -> [t EXCEPT !.ok = FALSE]
               [] ch = ":" /\ t.depth = 0 -> [t EXCEPT !.colon = TRUE]
               [] ch = "?" /\ t.depth = 0 -> [t EXCEPT !.question = TRUE]
               [] OTHER -> t

RECURSIVE Scan(_, _, _)
Scan(body, i, s) == IF i > Len(body) THEN s ELSE Scan(body, i + 1, ScanStep(s, body[i]))

WellFormedLiteral(r) ==
    /\ Len(r) >= 2 /\ r[1] = "{" /\ r[Len(r)] = "}"
    /\ LET s == Scan(SubSeq(r, 2, Len(r) - 1), 1, ScanStart)
       IN  s.ok /\ s.depth = 0 /\ (s.size = 0 \/ MemberOk(s))

----------------------------------------------------------------------------
(* C4: the replacements of a fix lie inside the span of the call and no    *)
(* two of them touch a common character of the original text; an insertion *)
(* never falls inside the range of another replacement.                    *)
C4_RangesDisjoint ==
    \A i \in DOMAIN failures :
        LET fix == failures[i].fix
            n == failures[i].node
        IN  \A a \in DOMAIN fix :
               /\ fix[a].length >= 0
               /\ startOf(n) <= fix[a].start /\ rangeEnd(fix[a]) <= endOf(n)
               /\ \A b \in DOMAIN fix :
                     a < b => (rangeEnd(fix[a]) <= fix[b].start \/ rangeEnd(fix[b]) <= fix[a].start)

\* a fix for a call with a trailing comma after an empty last literal
C4_Witness ==
    \E i \in DOMAIN failures :
        LET n == failures[i].node
        IN  /\ Len(argsOf(n)) = 3 /\ sourceFile.nodes[n].hasTrailingComma
            /\ IsEmptyLiteral(argsOf(n)[3]) /\ IsFilledLiteral(argsOf(n)[2])
            /\ kindOf(argsOf(n)[1]) = "ParenthesizedExpression"
            /\ Len(failures[i].fix) = 6

(* C5: a fix applied to the original text leaves the text around the call  *)
(* alone and puts an object literal in the place of the call: it starts    *)
(* with {, ends with }, every member is a spread or a property, members    *)
(* are separated by one comma, with no leading separator, no two           *)
(* separators in a row, and no parenthesis or brace of the call or of its  *)
(* argument literals is left over.                                         *)
C5_ResultIsObjectLiteral ==
    \A i \in DOMAIN fixed : AroundKept(i) /\ WellFormedLiteral(Result(i))

\* a fixed call that began with an empty literal followed by two arguments
C5_Witness ==
    \E i \in DOMAIN fixed :
        LET n == failures[i].node
        IN  /\ Len(argsOf(n)) = 3 /\ IsEmptyLiteral(argsOf(n)[1])
            /\ kindOf(argsOf(n)[2]) = "BinaryExpression" /\ IsFilledLiteral(argsOf(n)[3])
            /\ WellFormedLiteral(Result(i))

(* C6, as amended: for an empty object literal that is the last of two or  *)
(* more arguments of a call without trailing comma the fix deletes the     *)
(* literal alone; the separator before it stays unless the argument before *)
(* it is an empty literal too: Object.assign({a: 1}, b, {}) is fixed to    *)
(* {a: 1, ...b, }.                                                         *)
sTrailingEmptyExample ==
    sObjectAssign \o <<"(", "{", "a", ":", " ", "1", "}", ",", " ", "b", ",", " ", "{", "}", ")">>

TrailingEmpty(n) ==
    /\ Len(argsOf(n)) >= 2
    /\ ~ sourceFile.nodes[n].hasTrailingComma
    /\ IsEmptyLiteral(argsOf(n)[Len(argsOf(n))])

C6_TrailingEmptyLiteral ==
    \A i \in DOMAIN fixed :
        LET n == failures[i].node
            fix == failures[i].fix
            last == argsOf(n)[Len(argsOf(n))]
            prev == argsOf(n)[Len(argsOf(n)) - 1]
        IN  /\ TrailingEmpty(n) =>
                 /\ InFix(fix, deleteFromTo(startOf(last), endOf(last)))
                 /\ ~ IsEmptyLiteral(prev) =>
                       \A k \in DOMAIN fix :
                          rangeEnd(fix[k]) <= endOf(prev) \/ fix[k].start >= startOf(last)
            /\ SourceOf(sourceFile, n) = sTrailingEmptyExample =>
                 Result(i) = <<"{", "a", ":", " ", "1", ",", " ", ".", ".", ".", "b", ",", " ", "}">>

\* the example, fixed
C6_Witness ==
    \E i \in DOMAIN fixed :
        /\ SourceOf(sourceFile, failures[i].node) = sTrailingEmptyExample
        /\ TrailingEmpty(failures[i].node)

\* C6, as claimed: Object.assign({a: 1}, b, {}) is fixed to exactly {a: 1, ...b}
C6_SeparatorElided ==
    \A i \in DOMAIN fixed :
        SourceOf(sourceFile, failures[i].node) = sTrailingEmptyExample =>
            Result(i) = <<"{", "a", ":", " ", "1", ",", " ", ".", ".", ".", "b", "}">>

(* C7: for an empty object literal argument that a later argument follows  *)
(* the fix deletes from the start of the literal to the start of the next  *)
(* argument; a non-empty object literal argument loses its opening brace   *)
(* and the text from the end of its last property to its closing brace and *)
(* nothing else; Object.assign({}, {a: 1}, b) is fixed to {a: 1, ...b}.    *)
sLeadingEmptyExample ==
    sObjectAssign \o <<"(", "{", "}", ",", " ", "{", "a", ":", " ", "1", "}", ",", " ", "b", ")">>

C7_LiteralArguments ==
    \A i \in DOMAIN fixed :
        LET n == failures[i].node
            fix == failures[i].fix
            args == argsOf(n)
        IN  /\ \A k \in DOMAIN args :
                 LET a == args[k]
                     props == sourceFile.nodes[a].children
                 IN  /\ (IsEmptyLiteral(a) /\ k < Len(args)) =>
                           InFix(fix, deleteFromTo(startOf(a), startOf(args[k + 1])))
                     /\ IsFilledLiteral(a) =>
                           {fix[j] : j \in EditsWithin(fix, startOf(a), endOf(a))}
                              = {deleteFromTo(startOf(a), startOf(a) + 1),
                                 deleteFromTo(endOf(props[Len(props)]), endOf(a))}
            /\ SourceOf(sourceFile, n) = sLeadingEmptyExample =>
                 Result(i) = <<"{", "a", ":", " ", "1", ",", " ", ".", ".", ".", "b", "}">>

\* the example, fixed: an empty literal first, a non-empty literal after it
C7_Witness ==
    \E i \in DOMAIN fixed :
        /\ SourceOf(sourceFile, failures[i].node) = sLeadingEmptyExample
        /\ IsEmptyLiteral(argsOf(failures[i].node)[1])
        /\ IsFilledLiteral(argsOf(failures[i].node)[2])

(* C8: before every argument that is no object literal the fix inserts     *)
(* ... and, exactly when the argument is a conditional or a binary         *)
(* expression, wraps it: ...( before it and ) right after its end;         *)
(* Object.assign(cond ? a : b, c) is fixed to {...(cond ? a : b), ...c}    *)
(* and const x = Object.assign(y, z) to const x = {...y, ...z}.            *)
sConditionalExample ==
    sObjectAssign \o <<"(">> \o sCond \o <<" ", "?", " ", "a", " ", ":", " ", "b", ",", " ", "c", ")">>

sConstExample == sConst \o <<"x", " ", "=", " ">> \o sObjectAssign \o <<"(", "y", ",", " ", "z", ")">>

C8_SpreadArguments ==
    \A i \in DOMAIN fixed :
        LET n == failures[i].node
            fix == failures[i].fix
            args == argsOf(n)
        IN  /\ \A k \in DOMAIN args :
                 LET a == args[k]
                     wrap == kindOf(a) \in {"ConditionalExpression", "BinaryExpression"}
                 IN  kindOf(a) # "ObjectLiteralExpression" =>
                        {fix[j] : j \in EditsWithin(fix, startOf(a), endOf(a))}
                           = IF wrap
                             THEN {appendText(startOf(a), <<".", ".", ".", "(">>),
                                   appendText(endOf(a), <<")">>)}
                             ELSE {appendText(startOf(a), <<".", ".", ".">>)}
            /\ SourceOf(sourceFile, n) = sConditionalExample =>
                 Result(i) = <<"{", ".", ".", ".", "(">> \o sCond
                                \o <<" ", "?", " ", "a", " ", ":", " ", "b", ")",
                                     ",", " ", ".", ".", ".", "c", "}">>
            /\ sourceFile.text = sConstExample =>
                 fixed[i] = sConst \o <<"x", " ", "=", " ", "{", ".", ".", ".", "y",
                                        ",", " ", ".", ".", ".", "z", "}">>

\* the conditional example, fixed
C8_Witness ==
    \E i \in DOMAIN fixed :
        /\ SourceOf(sourceFile, failures[i].node) = sConditionalExample
        /\ kindOf(argsOf(failures[i].node)[1]) = "ConditionalExpression"

====
